---- MODULE Spec2Model ----
(***************************************************************************)
(* NeoClip 340: the generate / poll / webhook handlers of api/ and the     *)
(* quota ledger they keep in the users and generations tables.             *)
(*                                                                         *)
(* Every HTTP request runs in a request slot.  A handler is suspended only *)
(* at its awaits (a database operation or an outbound vendor request), so  *)
(* one action is one database operation together with the local code that  *)
(* surrounds it.  Vendor requests touch no table and are folded into the   *)
(* action of the database operation that precedes or follows them.         *)
(* A finished request stays in its slot, with its response, for exactly    *)
(* one step (Finish): sending the response commutes with everything else.  *)
(*                                                                         *)
(* The tables hold the columns the handlers read and write.                *)
(* Time is counted in ticks of half a day; a month has DaysPerMonth days.  *)
(* resets_at is a calendar day (a DATE column), "now" is an instant, and   *)
(* tz is the offset of the server's local time from UTC.                   *)
(***************************************************************************)
EXTENDS Integers, Sequences, FiniteSets, TLC

\* ---------------------------------------------------------------- bounds
MaxGen == 1          \* provider tasks created in one behaviour
MaxRace == 2         \* provider tasks created by overlapping submits
MaxNow == 4          \* last instant the clock reaches
MaxHooks == 1        \* webhook callbacks received in one behaviour
MaxStarts == 2       \* generations the page starts in one behaviour
LastStart == 1       \* poll intervals after page load in which it starts them

\* ------------------------------------------------------ program constants
FREE_LIMIT == 10
FREE_TIER_LIMIT == 10
POLL_INTERVAL_MS == 5000
MAX_POLL_TIME_MS == 360000

Req == {"r1", "r2"}                    \* request slots (concurrent requests)
Providers == {"wan", "luma", "fal"}
Tiers == {"free", "paid"}
AnyTiers == Tiers \cup {"pro"}          \* "pro": a tier no chain is named for
Urls == {"urlA", "urlB"}
Null == "null"
Terminal == {"completed", "failed"}


\* (mutation of FALLBACK_CHAINS: the paid chain starts with its fallback)
FALLBACK_CHAINSPaidReversed(tier) ==
    CASE tier = "free" -> <<"wan", "luma">>
      [] tier = "paid" -> <<"fal", "luma">>
      [] OTHER         -> <<"wan", "luma">>

\* FALLBACK_CHAINS[tier] || FALLBACK_CHAINS.free
FALLBACK_CHAINS(tier) ==
    CASE tier = "free" -> <<"wan", "luma">>
      [] tier = "paid" -> <<"luma", "fal">>
      [] OTHER         -> <<"wan", "luma">>

\* ------------------------------------------------------------------ state
VARIABLES
    now,          \* current instant (ticks since day 0, 00:00 UTC)
    free_used,    \* users.free_used of the user
    paid_used,    \* users.paid_used of the user
    resets_at,    \* users.resets_at of the user (a day)
    gens,         \* generations table, indexed by the task number
    nTasks,       \* provider tasks created so far
    apiKeys,      \* providers whose API key is configured
    tz,           \* local time of the server minus UTC, in ticks
    taskCap,      \* provider tasks that can be created in one behaviour
    mix,          \* the kind of requests that arrive next to the submits
    tiers,        \* the tier values that submits carry
    req,          \* request slots
    decs,         \* per provider task: usage decrements applied for it
    since,        \* the submits accepted since the last monthly reset
    hooks,        \* webhook callbacks received so far
    clock,        \* Date.now() of the browser, in milliseconds
    pollTimer,    \* main.js: id of the last timeout set (0: null)
    pollStartTime,\* main.js: when polling began (0: null)
    timers,       \* pending setTimeout callbacks of the page
    flights,      \* fetch requests of the page that are in flight
    disabled,     \* generateButton.disabled
    shown,        \* what the page shows: a video, an error, or neither
    nGen,         \* generations the page has started
    halted,       \* generations whose polling the user stopped
    answer        \* what the last poll request that came back brought

\* the deployment and its traffic, fixed during a behaviour
env == <<apiKeys, tz, taskCap, mix, tiers>>

\* the browser page
client == <<clock, pollTimer, pollStartTime, timers, flights, disabled,
            shown, nGen, halted, answer>>

vars == <<now, free_used, paid_used, resets_at, gens, nTasks, env, client, req,
          decs, since, hooks>>

GenIds == 1..(IF MaxRace > MaxGen THEN MaxRace ELSE MaxGen)

\* ---------------------------------------------------------------- calendar
TicksPerDay == 2
DaysPerMonth == 2
TicksPerMonth == TicksPerDay * DaysPerMonth

\* offsets of local time from UTC: half a day west, none, half a day east
TimeZones == {-1, 0, 1}

\* now.getFullYear(), now.getMonth(): the month of an instant in local time
getMonth(t, z) == (t + z) \div TicksPerMonth

\* new Date(year, month + 1, 1): local midnight of the first day of the
\* month after the local month of t, as an instant
firstOfNextMonth(t, z) == (getMonth(t, z) + 1) * TicksPerMonth - z

\* date.toISOString().split('T')[0]: the UTC calendar day of an instant
toISODate(t) == t \div TicksPerDay

\* new Date('YYYY-MM-DD'): midnight UTC of a calendar day
parseDate(d) == d * TicksPerDay

\* a row of generations
NoGen == [exists |-> FALSE, tier |-> Null, test_mode |-> FALSE,
          provider |-> Null, status |-> Null, video_url |-> Null,
          error |-> Null]

NoPoll == [status |-> Null, videoUrl |-> Null, error |-> Null,
           warning |-> Null]

\* freeRemaining is -1 and generationId is 0 in a response that has no such
\* field
NoResp == [code |-> 0, status |-> Null, videoUrl |-> Null, error |-> Null,
           warning |-> Null, provider |-> Null, freeRemaining |-> -1,
           generationId |-> 0]

\* a request slot: the handler's locals, what it has done (vendor calls,
\* table writes, rollback writes) and its response
Idle == [op |-> "idle", pc |-> "idle", prompt |-> Null, userId |-> Null,
         tier |-> Null, testMode |-> FALSE, reads |-> 0, reset |-> FALSE,
         gen |-> 0, prov |-> Null, uFree |-> 0, uPaid |-> 0,
         gStatus |-> Null, pr |-> NoPoll, net |-> "none",
         afterFix |-> FALSE, attempts |-> <<>>, auth |-> Null,
         calls |-> 0, writes |-> 0, rolled |-> 0, resp |-> NoResp]

Resp(code, status, error) ==
    [NoResp EXCEPT !.code = code, !.status = status, !.error = error]

Done(s, resp) == [s EXCEPT !.pc = "done", !.resp = resp]

\* no response is waiting to be sent
Quiet == \A r \in Req : req[r].pc # "done"

Bump(d) == IF d = "none" THEN "once" ELSE "many"

\* ============================================================ api/generate

\* replies a vendor can give to a "create task" request
CreateReplies ==
    {[net |-> "ok", http |-> 200, hasId |-> TRUE],
     [net |-> "ok", http |-> 200, hasId |-> FALSE],
     [net |-> "ok", http |-> 401, hasId |-> FALSE],
     [net |-> "ok", http |-> 403, hasId |-> FALSE],
     [net |-> "ok", http |-> 422, hasId |-> FALSE],
     [net |-> "ok", http |-> 429, hasId |-> FALSE],
     [net |-> "ok", http |-> 500, hasId |-> FALSE],
     [net |-> "timeout", http |-> 0, hasId |-> FALSE],
     [net |-> "neterr", http |-> 0, hasId |-> FALSE]}

\* makeRequest of generate.js: a thrown fetch becomes status 408 or 0
makeRequestG(reply) ==
    CASE reply.net = "timeout" -> [status |-> 408, ok |-> FALSE, hasId |-> FALSE]
      [] reply.net = "neterr"  -> [status |-> 0, ok |-> FALSE, hasId |-> FALSE]
      [] OTHER -> [status |-> reply.http,
                   ok |-> (reply.http >= 200 /\ reply.http <= 299),
                   hasId |-> reply.hasId]

\* (mutation of createProviderTask: a 422 answer counts as accepted)
createProviderTaskAccepts422(reply) ==
    LET r == makeRequestG(reply) IN
    CASE r.status = 401 \/ r.status = 403 -> "auth"
      [] r.status = 422 -> "ok"
      [] r.status = 429 -> "ratelimit"
      [] ~r.ok          -> "error"
      [] ~r.hasId       -> "notaskid"
      [] OTHER          -> "ok"

\* createProviderTask: the error it throws, or "ok" when it returns a task
createProviderTask(reply) ==
    LET r == makeRequestG(reply) IN
    CASE r.status = 401 \/ r.status = 403 -> "auth"
      [] r.status = 422 -> "validation"
      [] r.status = 429 -> "ratelimit"
      [] ~r.ok          -> "error"
      [] ~r.hasId       -> "notaskid"
      [] OTHER          -> "ok"

\* the message of the error createProviderTask throws: it names the provider
ErrorOf(p, e) == p \o ": " \o e

\* createTaskWithFallback: walks the chain from position i; attempts lists
\* the requests sent, with the HTTP status and the outcome of each
RECURSIVE TryChain(_, _, _, _, _, _)
TryChain(chain, i, keys, replies, attempts, lastError) ==
    IF i > Len(chain)
    THEN [ok |-> FALSE, provider |-> Null, attempts |-> attempts,
          error |-> IF lastError = Null THEN "All providers failed"
                    ELSE lastError]
    ELSE LET p == chain[i] IN
         IF p \notin keys
         THEN TryChain(chain, i + 1, keys, replies, attempts, lastError)
         ELSE LET e == createProviderTask(replies[p])
                  a == [provider |-> p,
                        status |-> makeRequestG(replies[p]).status,
                        error |-> e]
              IN
              IF e = "ok"
              THEN [ok |-> TRUE, provider |-> p,
                    attempts |-> Append(attempts, a), error |-> Null]
              ELSE TryChain(chain, i + 1, keys, replies,
                            Append(attempts, a), ErrorOf(p, e))

\* (mutation of createTaskWithFallback: providers without a key are asked too)
createTaskWithFallbackNoSkip(tier, keys, replies) ==
    TryChain(FALLBACK_CHAINS(tier), 1, Providers, replies, <<>>, Null)

createTaskWithFallback(tier, keys, replies) ==
    TryChain(FALLBACK_CHAINS(tier), 1, keys, replies, <<>>, Null)

\* (mutant of QuotaDenied: the limit itself still passes)
QuotaDeniedAboveLimit(testMode, tier, freeUsed) ==
    ~testMode /\ tier = "free" /\ freeUsed > FREE_LIMIT

\* the free quota check of the handler
QuotaDenied(testMode, tier, freeUsed) ==
    ~testMode /\ tier = "free" /\ freeUsed >= FREE_LIMIT

\* (mutation of AfterQuotaCheck: the quota is not checked)
AfterQuotaCheckSkipped(s) == [s EXCEPT !.pc = "s_create"]

\* what follows the quota check in the slot
AfterQuotaCheck(s) ==
    IF QuotaDenied(s.testMode, s.tier, s.uFree)
    THEN Done(s, Resp(402, Null, "Free limit reached"))
    ELSE [s EXCEPT !.pc = "s_create"]

\* prompts of a request body: none, empty, blank, a text
Prompts == {Null, "", "  ", "cat"}

trim(prompt) == IF prompt = "  " THEN "" ELSE prompt

\* (mutation of NoPrompt: the prompt is not trimmed)
NoPromptUntrimmed(prompt) == prompt = Null \/ prompt = ""

\* !prompt || typeof prompt !== 'string' || prompt.trim().length === 0
NoPrompt(prompt) == prompt = Null \/ prompt = "" \/ trim(prompt) = ""

\* POST /api/generate: validation, the read of the user row and, when no
\* reset is due, the quota check (the slot keeps tier and testMode of the
\* requests that get past the validation and the lookup, which use neither)
GenerateStart(r) ==
    /\ Quiet
    /\ req[r].op = "idle"
    /\ \E prompt \in Prompts, userId \in {Null, "u1", "u404"},
          tier \in tiers, testMode \in BOOLEAN :
         LET base == [Idle EXCEPT !.op = "submit", !.prompt = prompt,
                                  !.userId = userId]
             sel == [base EXCEPT !.reads = 1]
             u == [sel EXCEPT !.tier = tier, !.testMode = testMode,
                              !.uFree = free_used, !.uPaid = paid_used]
         IN
         req' = [req EXCEPT ![r] =
           CASE NoPrompt(prompt) ->
                  Done(base, Resp(400, Null, "Prompt is required"))
             [] userId = Null -> Done(base, Resp(400, Null, "User ID is required"))
             [] userId # "u1" -> Done(sel, Resp(404, Null, "User not found"))
             [] now >= parseDate(resets_at) -> [u EXCEPT !.pc = "s_reset"]
             [] OTHER -> AfterQuotaCheck(u)]
    /\ UNCHANGED <<now, free_used, paid_used, resets_at, gens, nTasks,
                   env, client, decs, since, hooks>>

\* the monthly reset: both counters to zero, resets_at to the first of next
\* month; only user.free_used is reset in the handler's copy of the row
GenerateReset(r) ==
    /\ Quiet
    /\ req[r].op = "submit" /\ req[r].pc = "s_reset"
    /\ free_used' = 0
    /\ paid_used' = 0
    /\ resets_at' = toISODate(firstOfNextMonth(now, tz))
    /\ req' = [req EXCEPT ![r] =
                 AfterQuotaCheck([@ EXCEPT !.uFree = 0, !.writes = @ + 1,
                                           !.reset = TRUE])]
    /\ since' = {}
    /\ UNCHANGED <<now, gens, nTasks, env, client, decs, hooks>>

\* the success response of the handler: it names the generation (which is
\* also the number of the provider task) and the provider
Started(s) ==
    [Resp(200, "processing", Null)
       EXCEPT !.provider = s.prov, !.generationId = s.gen]

\* (mutation of AfterInsert: a failed insert aborts the submit)
AfterInsertAborting(s, insertOk) ==
    IF ~insertOk THEN Done(s, Resp(500, Null, "Failed to save generation"))
    ELSE IF s.testMode THEN Done(s, Started(s))
    ELSE [s EXCEPT !.pc = "s_inc"]

\* what follows the insert: its error is logged only; the usage increment
\* is skipped in test mode
AfterInsert(s, insertOk) ==
    IF s.testMode THEN Done(s, Started(s))
    ELSE [s EXCEPT !.pc = "s_inc"]

\* createTaskWithFallback, then the insert into generations
GenerateCreate(r) ==
    /\ Quiet
    /\ req[r].op = "submit" /\ req[r].pc = "s_create"
    /\ \E r1 \in CreateReplies :
       \E r2 \in (IF createProviderTask(r1) = "ok" THEN {r1} ELSE CreateReplies) :
         \* r1 answers the first provider of the chain that has a key, r2 the
         \* second, which is asked only when the first did not accept
         LET chain == FALLBACK_CHAINS(req[r].tier)
             first == IF chain[1] \in apiKeys THEN chain[1] ELSE chain[2]
             replies == [p \in Providers |-> IF p = first THEN r1 ELSE r2]
             t == createTaskWithFallback(req[r].tier, apiKeys, replies)
             s == [req[r] EXCEPT !.attempts = t.attempts,
                                 !.calls = Len(t.attempts)]
         IN
         IF ~t.ok
         THEN /\ req' = [req EXCEPT ![r] = Done(s, Resp(500, Null, t.error))]
              /\ UNCHANGED <<gens, nTasks, since>>
         ELSE \E insertOk \in BOOLEAN :
              /\ nTasks < taskCap
              /\ nTasks' = nTasks + 1
              /\ since' = since \cup {[id |-> nTasks + 1, tier |-> s.tier,
                                       testMode |-> s.testMode]}
              /\ gens' = IF insertOk
                         THEN [gens EXCEPT ![nTasks + 1] =
                                 [NoGen EXCEPT !.exists = TRUE,
                                    !.tier = s.tier,
                                    !.test_mode = s.testMode,
                                    !.provider = t.provider,
                                    !.status = "processing"]]
                         ELSE gens
              /\ LET s2 == [s EXCEPT !.prov = t.provider, !.gen = nTasks + 1,
                              !.writes = @ + (IF insertOk THEN 1 ELSE 0)]
                 IN
                 req' = [req EXCEPT ![r] = AfterInsert(s2, insertOk)]
    /\ UNCHANGED <<now, free_used, paid_used, resets_at, env, client,
                   decs, hooks>>

\* (mutation of GenerateIncrement: the stored counter is incremented in place)
GenerateIncrementInPlace(r) ==
    /\ Quiet
    /\ req[r].op = "submit" /\ req[r].pc = "s_inc"
    /\ IF req[r].tier = "free"
       THEN /\ free_used' = free_used + 1
            /\ UNCHANGED paid_used
       ELSE /\ paid_used' = paid_used + 1
            /\ UNCHANGED free_used
    /\ req' = [req EXCEPT ![r] =
                 Done([@ EXCEPT !.writes = @ + 1], Started(req[r]))]
    /\ UNCHANGED <<now, resets_at, gens, nTasks, env, client, decs, since, hooks>>

\* the usage increment, written from the handler's copy of the user row
GenerateIncrement(r) ==
    /\ Quiet
    /\ req[r].op = "submit" /\ req[r].pc = "s_inc"
    /\ IF req[r].tier = "free"
       THEN /\ free_used' = req[r].uFree + 1
            /\ UNCHANGED paid_used
       ELSE /\ paid_used' = req[r].uPaid + 1
            /\ UNCHANGED free_used
    /\ req' = [req EXCEPT ![r] =
                 Done([@ EXCEPT !.writes = @ + 1], Started(req[r]))]
    /\ UNCHANGED <<now, resets_at, gens, nTasks, env, client, decs, since, hooks>>

\* ================================================================ api/poll

\* vendor status strings as sent (parseStatus lower-cases them)
\* NotAString: a status field that is a number (toLowerCase is no function)
NotAString == "<number>"
RawStatuses == {"", "SUCCEEDED", "succeeded", "completed", "success",
                "failed", "canceled", "error", "starting", "in_queue",
                "queued", "processing", NotAString}

toLowerCase(raw) == IF raw = "SUCCEEDED" THEN "succeeded" ELSE raw

\* places of a vendor response where a video URL can sit
UrlPaths == {"output", "video.url", "data.output.video_raw.url",
             "output.video_url", "files[0]"}

\* PROVIDERS[p].parseStatus of poll.js
parseStatus(p, raw) ==
    LET status == toLowerCase(raw) IN
    CASE raw = NotAString -> "THROWS"
      [] p = "wan" ->
           (CASE status = "succeeded" -> "completed"
              [] status \in {"failed", "canceled"} -> "failed"
              [] status = "starting" -> "queued"
              [] OTHER -> "processing")
      [] p = "fal" ->
           (CASE status \in {"completed", "succeeded"} -> "completed"
              [] status \in {"failed", "error"} -> "failed"
              [] status = "in_queue" -> "queued"
              [] OTHER -> "processing")
      [] OTHER ->
           (CASE status \in {"completed", "succeeded", "success"} -> "completed"
              [] status \in {"failed", "error"} -> "failed"
              [] status \in {"pending", "queued"} -> "queued"
              [] OTHER -> "processing")

\* PROVIDERS[p].extractVideoUrl of poll.js on a response body that carries
\* url at place path (path Null: no URL anywhere)
extractVideoUrl(p, path, url) ==
    LET known ==
          CASE p = "wan" -> {"output"}
            [] p = "fal" -> {"video.url", "output.video_url"}
            [] OTHER     -> {"data.output.video_raw.url", "output.video_url"}
    IN IF path \in known THEN url ELSE Null

\* replies a vendor can give to a status request
PollReplies ==
    {[net |-> n, http |-> 0, raw |-> "", path |-> Null, url |-> Null] :
        n \in {"timeout", "neterr"}}
    \cup {[net |-> "ok", http |-> h, raw |-> "", path |-> Null, url |-> Null] :
        h \in {401, 403, 500}}
    \cup {[net |-> "ok", http |-> 200, raw |-> s, path |-> Null, url |-> Null] :
        s \in RawStatuses}
    \cup {[net |-> "ok", http |-> 200, raw |-> "succeeded", path |-> pa,
           url |-> u] : pa \in UrlPaths, u \in Urls}

\* replies a vendor can give to the separate result request
ResultReplies ==
    {[net |-> n, http |-> 0, raw |-> "", path |-> Null, url |-> Null] :
        n \in {"timeout", "neterr"}}
    \cup {[net |-> "ok", http |-> h, raw |-> "", path |-> Null, url |-> Null] :
        h \in {200, 500}}
    \cup {[net |-> "ok", http |-> 200, raw |-> "", path |-> pa, url |-> u] :
        pa \in {"video.url", "files[0]"}, u \in Urls}

\* makeRequest of poll.js: a thrown fetch becomes status 408 or 0 with an
\* empty body
makeRequest(reply) ==
    CASE reply.net = "timeout" ->
           [status |-> 408, ok |-> FALSE, raw |-> "", path |-> Null, url |-> Null]
      [] reply.net = "neterr" ->
           [status |-> 0, ok |-> FALSE, raw |-> "", path |-> Null, url |-> Null]
      [] OTHER ->
           [status |-> reply.http,
            ok |-> (reply.http >= 200 /\ reply.http <= 299),
            raw |-> reply.raw, path |-> reply.path, url |-> reply.url]

PollOut(status, videoUrl, error, calls, net) ==
    [pr |-> [status |-> status, videoUrl |-> videoUrl, error |-> error,
             warning |-> Null],
     calls |-> calls, net |-> net]

\* the catch block of pollProvider
PollCaught(calls, net) ==
    [pr |-> [status |-> "processing", videoUrl |-> Null, error |-> Null,
             warning |-> "toLowerCase is not a function"],
     calls |-> calls, net |-> net]

\* pollProvider: the pollResult, the vendor requests sent and which of them
\* failed at the network level
pollProvider(p, keys, reply1, reply2) ==
    IF p \notin Providers
    THEN PollOut("failed", Null, "Unknown provider", 0, "none")
    ELSE IF p \notin keys
    THEN PollOut("failed", Null, "No API key", 0, "none")
    ELSE
    LET r1 == makeRequest(reply1)
        net1 == IF reply1.net # "ok" THEN "status" ELSE "none"
        taskStatus == parseStatus(p, r1.raw)
        url1 == extractVideoUrl(p, r1.path, r1.url)
        separately == url1 = Null /\ p = "fal"
        r2 == makeRequest(reply2)
        url2 == IF separately /\ r2.ok
                THEN extractVideoUrl(p, r2.path, r2.url) ELSE url1
        net2 == IF separately /\ reply2.net # "ok" THEN "result" ELSE net1
        n == IF separately THEN 2 ELSE 1
    IN
    CASE r1.status = 401 \/ r1.status = 403 ->
           PollOut("failed", Null, "Authentication error", 1, net1)
      [] taskStatus = "THROWS" -> PollCaught(1, net1)
      [] taskStatus = "completed" /\ url2 # Null ->
           PollOut("completed", url2, Null, n, net2)
      [] taskStatus = "completed" ->
           PollOut("failed", Null, "URL not found", n, net2)
      [] taskStatus = "failed" ->
           PollOut("failed", Null, "Generation failed", 1, net1)
      [] OTHER -> PollOut(taskStatus, Null, Null, 1, net1)

PollResp(code, status, videoUrl, error, warning) ==
    [NoResp EXCEPT !.code = code, !.status = status, !.videoUrl = videoUrl,
                   !.error = error, !.warning = warning]

\* GET /api/poll: the read of the generation, the cached answers, and
\* pollProvider up to the first write
PollStart(r) ==
    /\ Quiet
    /\ req[r].op = "idle"
    /\ \E generationId \in {0} \cup GenIds :      \* 0: no generationId
         LET base == [Idle EXCEPT !.op = "poll"]
             generation == gens[generationId]
             sel == [base EXCEPT !.reads = 1]
             s == [sel EXCEPT  !.gen = generationId,
                               !.tier = generation.tier,
                               !.testMode = generation.test_mode,
                               !.prov = generation.provider,
                               !.gStatus = generation.status,
                               !.afterFix = generation.video_url # Null]
         IN
         IF generationId = 0
         THEN req' = [req EXCEPT ![r] =
                        Done(base, Resp(400, Null, "generationId is required"))]
         ELSE IF ~generation.exists
         THEN req' = [req EXCEPT ![r] =
                        Done(sel, Resp(404, Null, "Generation not found"))]
         ELSE IF generation.status = "completed" /\ generation.video_url # Null
         THEN req' = [req EXCEPT ![r] =
                        Done(s, PollResp(200, "completed", generation.video_url,
                                         Null, Null))]
         ELSE IF generation.status = "failed"
         THEN req' = [req EXCEPT ![r] =
                        Done(s, PollResp(200, "failed", Null,
                               IF generation.error = Null
                               THEN "Generation failed"
                               ELSE generation.error, Null))]
         ELSE
         \* reply1 answers the status request, reply2 the result request,
         \* which only FAL has
         \E reply1 \in PollReplies :
         \E reply2 \in (IF generation.provider = "fal" THEN ResultReplies
                        ELSE {CHOOSE x \in ResultReplies : TRUE}) :
           LET o == pollProvider(generation.provider, apiKeys, reply1, reply2)
               t == [s EXCEPT !.pr = o.pr, !.calls = o.calls, !.net = o.net]
           IN
           req' = [req EXCEPT ![r] =
             CASE o.pr.status = "completed" /\ o.pr.videoUrl # Null ->
                    [t EXCEPT !.pc = "p_save_c"]
               [] o.pr.status = "failed" -> [t EXCEPT !.pc = "p_save_f"]
               [] OTHER ->
                    Done(t, PollResp(200, o.pr.status, Null, Null,
                                     o.pr.warning))]
    /\ UNCHANGED <<now, free_used, paid_used, resets_at, gens, nTasks,
                   env, client, decs, since, hooks>>

\* the completed branch: the update of the generation and of the user's
\* statistics
PollSaveCompleted(r) ==
    /\ Quiet
    /\ req[r].op = "poll" /\ req[r].pc = "p_save_c"
    /\ gens' = [gens EXCEPT ![req[r].gen] =
                  [@ EXCEPT !.status = "completed",
                            !.video_url = req[r].pr.videoUrl]]
    /\ req' = [req EXCEPT ![r] =
                 Done([@ EXCEPT !.writes = @ + 2],
                      PollResp(200, "completed", req[r].pr.videoUrl,
                               Null, Null))]
    /\ UNCHANGED <<now, free_used, paid_used, resets_at, nTasks, env, client,
                   decs, since, hooks>>

\* the failed branch: the update of the generation
PollSaveFailed(r) ==
    /\ Quiet
    /\ req[r].op = "poll" /\ req[r].pc = "p_save_f"
    /\ gens' = [gens EXCEPT ![req[r].gen] =
                  [@ EXCEPT !.status = "failed", !.error = req[r].pr.error]]
    /\ req' = [req EXCEPT ![r] = [@ EXCEPT !.pc = "p_user",
                                           !.writes = @ + 1]]
    /\ UNCHANGED <<now, free_used, paid_used, resets_at, nTasks, env, client,
                   decs, since, hooks>>

\* (mutant of ShouldRollback: test-mode generations are rolled back too)
ShouldRollbackAnyMode(testMode, tier, uFree, uPaid) ==
    \/ tier = "free" /\ uFree > 0
    \/ tier # "free" /\ uPaid > 0

\* (mutation of ShouldRollback: a counter at zero is decremented too)
ShouldRollbackAtZero(testMode, tier, uFree, uPaid) == ~testMode

\* the conditions under which poll writes a decrement
ShouldRollback(testMode, tier, uFree, uPaid) ==
    /\ ~testMode
    /\ \/ tier = "free" /\ uFree > 0
       \/ tier # "free" /\ uPaid > 0

\* the failed branch: the read of the user's counters and the decision to
\* roll back
PollReadUser(r) ==
    /\ Quiet
    /\ req[r].op = "poll" /\ req[r].pc = "p_user"
    /\ LET s == [req[r] EXCEPT !.uFree = free_used, !.uPaid = paid_used,
                               !.reads = @ + 1]
           rollback == ShouldRollback(s.testMode, s.tier, s.uFree, s.uPaid)
       IN req' = [req EXCEPT ![r] =
            IF rollback THEN [s EXCEPT !.pc = "p_rb"]
            ELSE Done(s, PollResp(200, "failed", Null, s.pr.error, Null))]
    /\ UNCHANGED <<now, free_used, paid_used, resets_at, gens, nTasks,
                   env, client, decs, since, hooks>>

\* the failed branch: the usage rollback, written from the counters read
PollRollback(r) ==
    /\ Quiet
    /\ req[r].op = "poll" /\ req[r].pc = "p_rb"
    /\ IF req[r].tier = "free"
       THEN /\ free_used' = req[r].uFree - 1
            /\ UNCHANGED paid_used
       ELSE /\ paid_used' = req[r].uPaid - 1
            /\ UNCHANGED free_used
    /\ decs' = [decs EXCEPT ![req[r].gen] = Bump(@)]
    /\ req' = [req EXCEPT ![r] =
                 Done([@ EXCEPT !.writes = @ + 1, !.rolled = @ + 1],
                      PollResp(200, "failed", Null, req[r].pr.error, Null))]
    /\ UNCHANGED <<now, resets_at, gens, nTasks, env, client, since,
                   hooks>>

\* ============================================================= api/webhook

\* the statuses a callback reports
WebhookStatuses == {"processing", "completed", "failed"}

\* verifySignature: no secret or no signature header skips the verification
verifySignature(signature, secretSet) ==
    IF ~secretSet \/ signature = "none" THEN TRUE
    ELSE signature = "valid"

\* how a callback stands to the signature check: "open" when WEBHOOK_SECRET
\* is not set, else the x-webhook-signature header it carries
Auth(signature, secretSet) == IF ~secretSet THEN "open" ELSE signature

\* POST /api/webhook: the signature check and the update of the generation
\* whose task_id is taskId (0: no taskId in the body)
WebhookStart(r) ==
    /\ Quiet
    /\ req[r].op = "idle"
    /\ hooks < MaxHooks
    /\ \E secretSet \in BOOLEAN, signature \in {"none", "valid", "invalid"},
          taskId \in 0..nTasks, status \in WebhookStatuses,
          videoUrl \in {Null, "urlA"},
          webhookError \in {Null, "Generation failed"},
          userId \in {Null, "u1"} :
         LET base == [Idle EXCEPT !.op = "webhook", !.gen = taskId,
                                  !.gStatus = status,
                                  !.auth = Auth(signature, secretSet)]
         IN
         IF secretSet /\ ~verifySignature(signature, secretSet)
         THEN /\ req' = [req EXCEPT ![r] =
                     Done(base, Resp(401, Null, "Invalid webhook signature"))]
              /\ UNCHANGED gens
         ELSE IF taskId = 0
         THEN /\ req' = [req EXCEPT ![r] =
                     Done(base, Resp(400, Null, "Task ID is required"))]
              /\ UNCHANGED gens
         ELSE /\ gens' = [gens EXCEPT ![taskId] =
                     IF ~@.exists THEN @
                     ELSE [@ EXCEPT
                       !.status = status,
                       !.video_url = IF status = "completed" /\ videoUrl # Null
                                     THEN videoUrl ELSE @,
                       !.error = IF status = "failed" /\ webhookError # Null
                                 THEN webhookError ELSE @]]
              /\ LET s == [base EXCEPT !.writes = 1] IN
                 req' = [req EXCEPT ![r] =
                   IF status = "failed" /\ userId # Null
                   THEN [s EXCEPT !.pc = "w_user"]
                   ELSE Done([s EXCEPT !.writes = 2], Resp(200, Null, Null))]
    /\ hooks' = hooks + 1
    /\ UNCHANGED <<now, free_used, paid_used, resets_at, nTasks, env, client,
                   decs, since>>

\* the read of the user's free_used
WebhookReadUser(r) ==
    /\ Quiet
    /\ req[r].op = "webhook" /\ req[r].pc = "w_user"
    /\ LET s == [req[r] EXCEPT !.uFree = free_used, !.reads = @ + 1] IN
       req' = [req EXCEPT ![r] =
         IF s.uFree > 0 THEN [s EXCEPT !.pc = "w_rb"]
         ELSE Done([s EXCEPT !.writes = @ + 1], Resp(200, Null, Null))]
    /\ UNCHANGED <<now, free_used, paid_used, resets_at, gens, nTasks,
                   env, client, decs, since, hooks>>

\* the rollback of free_used, written from the value read
WebhookRollback(r) ==
    /\ Quiet
    /\ req[r].op = "webhook" /\ req[r].pc = "w_rb"
    /\ free_used' = req[r].uFree - 1
    /\ decs' = [decs EXCEPT ![req[r].gen] = Bump(@)]
    /\ req' = [req EXCEPT ![r] =
                 Done([@ EXCEPT !.writes = @ + 2, !.rolled = @ + 1],
                      Resp(200, Null, Null))]
    /\ UNCHANGED <<now, paid_used, resets_at, gens, nTasks, env, client,
                   since, hooks>>

\* ============================================================== api/status

\* the freeUsed query parameter: absent, digits, no number
FreeUsedParams == {Null, "0", "9", "10", "11", "abc"}

\* parseInt(freeUsed) || 0
parseIntOrZero(x) ==
    CASE x = "9"  -> 9
      [] x = "10" -> 10
      [] x = "11" -> 11
      [] OTHER    -> 0

\* GET /api/status: no table is read; the user's status is computed from
\* the freeUsed parameter of the query (taskId 0: no taskId)
Status(r) ==
    /\ Quiet
    /\ req[r].op = "idle"
    /\ \E userId \in {Null, "u1"}, taskId \in {0, 1},
          freeUsed \in FreeUsedParams :
         LET base == [Idle EXCEPT !.op = "status", !.userId = userId,
                                  !.gen = taskId]
             parsedFreeUsed == parseIntOrZero(freeUsed)
             freeRemaining == IF FREE_TIER_LIMIT - parsedFreeUsed > 0
                              THEN FREE_TIER_LIMIT - parsedFreeUsed ELSE 0
         IN
         req' = [req EXCEPT ![r] =
           CASE taskId # 0 -> Done(base, Resp(200, Null, Null))
             [] userId # Null ->
                  Done(base, [Resp(200, Null, Null)
                                EXCEPT !.freeRemaining = freeRemaining])
             [] OTHER ->
                  Done(base, Resp(400, Null, "userId or taskId required"))]
    /\ UNCHANGED <<now, free_used, paid_used, resets_at, gens, nTasks,
                   env, client, decs, since, hooks>>

\* ================================================================= main.js

\* Date.now() when the page is loaded: later than MAX_POLL_TIME_MS after the
\* epoch, as every present-day clock is
PageLoad == MAX_POLL_TIME_MS + POLL_INTERVAL_MS

\* the last instant the clock reaches: a generation is started at most
\* LastStart intervals after the page load, its submit takes at most one
\* interval, a poll begun within MAX_POLL_TIME_MS of that takes at most one
\* interval and sets a timer one interval ahead
MaxClock == PageLoad + MAX_POLL_TIME_MS + (LastStart + 3) * POLL_INTERVAL_MS

\* nothing shown: error container and video container hidden
NoShow == [gen |-> 0, what |-> "none"]

\* the state of a freshly loaded page
PageLoaded ==
    /\ clock = PageLoad
    /\ pollTimer = 0
    /\ pollStartTime = 0
    /\ timers = {}
    /\ flights = {}
    /\ disabled = FALSE
    /\ shown = NoShow
    /\ nGen = 0
    /\ halted = {}
    /\ answer = "none"

\* the tables and request slots of the server
server == <<now, free_used, paid_used, resets_at, gens, nTasks, env, req,
            decs, since, hooks>>

\* the generations a polling chain of which is alive: a timeout is pending
\* or a poll request is in flight
Active(g) ==
    \/ \E t \in timers : t.gen = g
    \/ \E f \in flights : f.kind = "poll" /\ f.gen = g

PageGens == 1..(MaxStarts + 1)

\* setTimeout: an id no pending timeout has and pollTimer does not hold
NewTimer ==
    CHOOSE i \in 1..(MaxStarts + 3) :
      /\ i # pollTimer
      /\ \A t \in timers : t.id # i
      /\ \A j \in 1..(i - 1) : j = pollTimer \/ \E t \in timers : t.id = j

\* clearTimeout(pollTimer) of stopPolling: the pending timeouts left
stopPolling == {t \in timers : t.id # pollTimer}

\* (mutation of TimedOut: polling has no time limit)
TimedOutNever(elapsed) == FALSE

\* poll: elapsed > MAX_POLL_TIME_MS
TimedOut(elapsed) == elapsed > MAX_POLL_TIME_MS

\* the user presses the generate button: generateVideo up to its await of
\* the submit
generateVideo ==
    /\ ~disabled
    /\ nGen < MaxStarts
    /\ clock <= PageLoad + LastStart * POLL_INTERVAL_MS
    /\ \E prompt \in {"", "cat"} :
         IF prompt = ""
         THEN /\ shown' = [gen |-> 0, what |-> "error"]
              /\ UNCHANGED <<pollTimer, pollStartTime, timers, flights,
                             disabled, halted>>
         ELSE /\ timers' = stopPolling
              /\ pollTimer' = 0
              /\ pollStartTime' = 0
              /\ halted' = halted \cup {g \in PageGens : Active(g)}
              /\ disabled' = TRUE
              /\ shown' = NoShow
              /\ flights' = flights \cup
                             {[kind |-> "generate", gen |-> 0, at |-> clock]}
    /\ UNCHANGED <<clock, nGen, answer, server>>

\* generateVideo after the submit came back: on success pollStartTime is
\* set and startPolling runs poll up to its fetch
generateVideoResumes(f) ==
    /\ f \in flights /\ f.kind = "generate"
    /\ \E reply \in {"ok", "402", "error"} :
         CASE reply = "ok" ->
                /\ nGen' = nGen + 1
                /\ pollStartTime' = clock
                /\ flights' = (flights \ {f}) \cup
                       {[kind |-> "poll", gen |-> nGen + 1, at |-> clock]}
                /\ UNCHANGED <<shown, disabled>>
           [] reply = "402" ->
                /\ shown' = [gen |-> 0, what |-> "error"]
                /\ flights' = flights \ {f}
                /\ UNCHANGED <<nGen, pollStartTime, disabled>>
           [] OTHER ->
                /\ shown' = [gen |-> 0, what |-> "error"]
                /\ disabled' = FALSE
                /\ flights' = flights \ {f}
                /\ UNCHANGED <<nGen, pollStartTime>>
    /\ UNCHANGED <<clock, pollTimer, timers, halted, answer, server>>

\* a timeout set by poll fires: poll runs up to its fetch, or gives up
poll(t) ==
    /\ t \in timers
    /\ clock >= t.due
    /\ LET elapsed == clock - pollStartTime IN
       IF TimedOut(elapsed)
       THEN /\ timers' = stopPolling \ {t}
            /\ pollTimer' = 0
            /\ pollStartTime' = 0
            /\ shown' = [gen |-> t.gen, what |-> "timeout"]
            /\ disabled' = FALSE
            /\ UNCHANGED flights
       ELSE /\ timers' = timers \ {t}
            /\ flights' = flights \cup
                   {[kind |-> "poll", gen |-> t.gen, at |-> clock]}
            /\ UNCHANGED <<pollTimer, pollStartTime, shown, disabled>>
    /\ UNCHANGED <<clock, nGen, halted, answer, server>>

\* what a poll request brings: a video, a failure, neither yet, or no
\* response at all (fetch or response.json() throws)
Answers == {"completed", "failed", "processing", "throws"}

\* poll after its fetch came back
pollResumes(f) ==
    /\ f \in flights /\ f.kind = "poll"
    /\ \E a \in Answers :
         /\ answer' = a
         /\ IF a \in {"completed", "failed"}
            THEN /\ timers' = stopPolling
                 /\ pollTimer' = 0
                 /\ pollStartTime' = 0
                 /\ shown' = [gen |-> f.gen,
                              what |-> IF a = "completed" THEN "video"
                                       ELSE "failed"]
                 /\ disabled' = FALSE
            ELSE /\ timers' = timers \cup
                        {[id |-> NewTimer, gen |-> f.gen,
                          due |-> clock + POLL_INTERVAL_MS]}
                 /\ pollTimer' = NewTimer
                 /\ UNCHANGED <<pollStartTime, shown, disabled>>
    /\ flights' = flights \ {f}
    /\ UNCHANGED <<clock, nGen, halted, server>>

\* the user resets the page
resetUI ==
    /\ timers' = stopPolling
    /\ pollTimer' = 0
    /\ pollStartTime' = 0
    /\ halted' = halted \cup {g \in PageGens : Active(g)}
    /\ shown' = NoShow
    /\ UNCHANGED <<clock, flights, disabled, nGen, answer, server>>

\* time passes in the browser; a fetch comes back within one poll interval
Advance ==
    /\ clock < MaxClock
    /\ \A f \in flights : f.at = clock
    /\ clock' = clock + POLL_INTERVAL_MS
    /\ UNCHANGED <<pollTimer, pollStartTime, timers, flights, disabled,
                   shown, nGen, halted, answer, server>>

\* ================================================================ schedule

\* the response is sent; the slot serves the next request
Finish(r) ==
    /\ req[r].pc = "done"
    /\ req' = [req EXCEPT ![r] = Idle]
    /\ UNCHANGED <<now, free_used, paid_used, resets_at, gens, nTasks,
                   env, client, decs, since, hooks>>

\* half a day passes
Tick ==
    /\ Quiet
    /\ now < MaxNow
    /\ now' = now + 1
    /\ UNCHANGED <<free_used, paid_used, resets_at, gens, nTasks, env, client,
                   req, decs, since, hooks>>

\* a user who signed up in month 0, seen in the last half day of that month;
\* all API keys configured, server on UTC
Init ==
    /\ now = TicksPerMonth - 1
    /\ free_used \in {FREE_LIMIT - 1, FREE_LIMIT}
    /\ paid_used \in {0, 1}
    /\ resets_at = DaysPerMonth
    /\ gens = [i \in GenIds |-> NoGen]
    /\ nTasks = 0
    /\ apiKeys = Providers
    /\ tz = 0
    /\ taskCap = MaxGen
    /\ mix = "any"
    /\ tiers = Tiers
    /\ req = [r \in Req |-> Idle]
    /\ decs = [i \in GenIds |-> "none"]
    /\ since = {}
    /\ hooks = 0
    /\ PageLoaded

\* requests served one at a time
SeqReq == {"r1"}

Next ==
    \/ \E r \in SeqReq : GenerateStart(r)
    \/ \E r \in SeqReq : GenerateReset(r)
    \/ \E r \in SeqReq : GenerateCreate(r)
    \/ \E r \in SeqReq : GenerateIncrement(r)
    \/ \E r \in SeqReq : PollStart(r)
    \/ \E r \in SeqReq : PollSaveCompleted(r)
    \/ \E r \in SeqReq : PollSaveFailed(r)
    \/ \E r \in SeqReq : PollReadUser(r)
    \/ \E r \in SeqReq : PollRollback(r)
    \/ \E r \in SeqReq : WebhookStart(r)
    \/ \E r \in SeqReq : WebhookReadUser(r)
    \/ \E r \in SeqReq : WebhookRollback(r)
    \/ \E r \in SeqReq : Status(r)
    \/ \E r \in SeqReq : Finish(r)
    \/ Tick

Spec == Init /\ [][Next]_vars

\* ------------------------------------------------------------ submits only
\* any set of configured keys, any server time zone, a user whose reset date
\* is overdue or ahead, seen on the last day of month 0
InitSubmit ==
    /\ now = TicksPerMonth - TicksPerDay
    /\ free_used \in {FREE_LIMIT - 1, FREE_LIMIT}
    /\ paid_used \in {0, 1}
    /\ resets_at \in {0, DaysPerMonth}
    /\ gens = [i \in GenIds |-> NoGen]
    /\ nTasks = 0
    /\ apiKeys \in SUBSET Providers
    /\ tz \in TimeZones
    /\ taskCap = MaxGen
    /\ mix = "any"
    /\ tiers = Tiers
    /\ req = [r \in Req |-> Idle]
    /\ decs = [i \in GenIds |-> "none"]
    /\ since = {}
    /\ hooks = 0
    /\ PageLoaded

NextSubmit ==
    \/ \E r \in SeqReq : GenerateStart(r)
    \/ \E r \in SeqReq : GenerateReset(r)
    \/ \E r \in SeqReq : GenerateCreate(r)
    \/ \E r \in SeqReq : GenerateIncrement(r)
    \/ \E r \in SeqReq : Finish(r)
    \/ Tick

SubmitSpec == InitSubmit /\ [][NextSubmit]_vars

\* ------------------------------------------------------ overlapping requests
\* a submit or a webhook in one slot while a poll or a webhook runs in the
\* other; one provider configured, counters one above zero
InitConc ==
    /\ now = TicksPerMonth - 1
    /\ free_used = 1
    /\ paid_used = 1
    /\ resets_at = DaysPerMonth
    /\ gens = [i \in GenIds |-> NoGen]
    /\ nTasks = 0
    /\ apiKeys = {"luma"}
    /\ tz = 0
    /\ taskCap = MaxGen
    /\ mix = "any"
    /\ tiers = Tiers
    /\ req = [r \in Req |-> Idle]
    /\ decs = [i \in GenIds |-> "none"]
    /\ since = {}
    /\ hooks = 0
    /\ PageLoaded

NextConc ==
    \/ GenerateStart("r1")
    \/ GenerateReset("r1")
    \/ GenerateCreate("r1")
    \/ GenerateIncrement("r1")
    \/ PollStart("r2")
    \/ PollSaveCompleted("r2")
    \/ PollSaveFailed("r2")
    \/ PollReadUser("r2")
    \/ PollRollback("r2")
    \/ \E r \in Req : WebhookStart(r)
    \/ \E r \in Req : WebhookReadUser(r)
    \/ \E r \in Req : WebhookRollback(r)
    \/ \E r \in Req : Finish(r)
    \/ Tick

ConcSpec == InitConc /\ [][NextConc]_vars

\* --------------------------------------------------------- overlapping submits
\* two submits at a time within one period (no reset falls due), of a user
\* one below the free limit; one provider configured
InitRace ==
    /\ now = TicksPerMonth - 1
    /\ free_used = FREE_LIMIT - 1
    /\ paid_used = 0
    /\ resets_at = DaysPerMonth
    /\ gens = [i \in GenIds |-> NoGen]
    /\ nTasks = 0
    /\ apiKeys = {"luma"}
    /\ tz = 0
    /\ taskCap = MaxRace
    /\ mix = "any"
    /\ tiers = Tiers
    /\ req = [r \in Req |-> Idle]
    /\ decs = [i \in GenIds |-> "none"]
    /\ since = {}
    /\ hooks = 0
    /\ PageLoaded

NextRace ==
    \/ \E r \in Req : GenerateStart(r)
    \/ \E r \in Req : GenerateCreate(r)
    \/ \E r \in Req : GenerateIncrement(r)
    \/ \E r \in Req : Finish(r)

RaceSpec == InitRace /\ [][NextRace]_vars

\* ------------------------------------------------------- requests at the limit
\* submits in one slot while the other slot serves requests of one kind,
\* submits or polls or callbacks, within one period, of a user one below the
\* free limit; one provider configured
Mixes == {"submit", "poll", "webhook"}

InitLimit ==
    /\ now = TicksPerMonth - 1
    /\ free_used = FREE_LIMIT - 1
    /\ paid_used = 0
    /\ resets_at = DaysPerMonth
    /\ gens = [i \in GenIds |-> NoGen]
    /\ nTasks = 0
    /\ apiKeys = {"luma"}
    /\ tz = 0
    /\ taskCap = MaxRace
    /\ mix \in Mixes
    /\ tiers = Tiers
    /\ req = [r \in Req |-> Idle]
    /\ decs = [i \in GenIds |-> "none"]
    /\ since = {}
    /\ hooks = 0
    /\ PageLoaded

NextLimit ==
    \/ GenerateStart("r1")
    \/ GenerateCreate("r1")
    \/ GenerateIncrement("r1")
    \/ mix = "submit" /\ GenerateStart("r2")
    \/ mix = "submit" /\ GenerateCreate("r2")
    \/ mix = "submit" /\ GenerateIncrement("r2")
    \/ mix = "poll" /\ PollStart("r2")
    \/ mix = "poll" /\ PollSaveCompleted("r2")
    \/ mix = "poll" /\ PollSaveFailed("r2")
    \/ mix = "poll" /\ PollReadUser("r2")
    \/ mix = "poll" /\ PollRollback("r2")
    \/ mix = "webhook" /\ WebhookStart("r2")
    \/ mix = "webhook" /\ WebhookReadUser("r2")
    \/ mix = "webhook" /\ WebhookRollback("r2")
    \/ \E r \in Req : Finish(r)

LimitSpec == InitLimit /\ [][NextLimit]_vars

\* ------------------------------------------------------- overlapping polls
\* two polls at a time of one generation, after the free-tier submit that
\* created it at luma and brought free_used to the limit
InitPolls ==
    /\ now = TicksPerMonth - 1
    /\ free_used = FREE_LIMIT
    /\ paid_used = 0
    /\ resets_at = DaysPerMonth
    /\ gens = [i \in GenIds |->
                 IF i = 1
                 THEN [NoGen EXCEPT !.exists = TRUE, !.tier = "free",
                                    !.provider = "luma",
                                    !.status = "processing"]
                 ELSE NoGen]
    /\ nTasks = 1
    /\ apiKeys = {"luma"}
    /\ tz = 0
    /\ taskCap = MaxGen
    /\ mix = "poll"
    /\ tiers = Tiers
    /\ req = [r \in Req |-> Idle]
    /\ decs = [i \in GenIds |-> "none"]
    /\ since = {[id |-> 1, tier |-> "free", testMode |-> FALSE]}
    /\ hooks = 0
    /\ PageLoaded

NextPolls ==
    \/ \E r \in Req : PollStart(r)
    \/ \E r \in Req : PollSaveCompleted(r)
    \/ \E r \in Req : PollSaveFailed(r)
    \/ \E r \in Req : PollReadUser(r)
    \/ \E r \in Req : PollRollback(r)
    \/ \E r \in Req : Finish(r)

PollsSpec == InitPolls /\ [][NextPolls]_vars

\* ------------------------------------------------------- across a reset
\* a new user, seen in the last half day of the month of the sign-up:
\* submits and polls one at a time, into the next month; one provider
\* configured
InitPeriod ==
    /\ now = TicksPerMonth - 1
    /\ free_used = 0
    /\ paid_used = 0
    /\ resets_at = DaysPerMonth
    /\ gens = [i \in GenIds |-> NoGen]
    /\ nTasks = 0
    /\ apiKeys = {"luma"}
    /\ tz = 0
    /\ taskCap = MaxRace
    /\ mix = "poll"
    /\ tiers = Tiers
    /\ req = [r \in Req |-> Idle]
    /\ decs = [i \in GenIds |-> "none"]
    /\ since = {}
    /\ hooks = 0
    /\ PageLoaded

NextPeriod ==
    \/ \E r \in SeqReq : GenerateStart(r)
    \/ \E r \in SeqReq : GenerateReset(r)
    \/ \E r \in SeqReq : GenerateCreate(r)
    \/ \E r \in SeqReq : GenerateIncrement(r)
    \/ \E r \in SeqReq : PollStart(r)
    \/ \E r \in SeqReq : PollSaveCompleted(r)
    \/ \E r \in SeqReq : PollSaveFailed(r)
    \/ \E r \in SeqReq : PollReadUser(r)
    \/ \E r \in SeqReq : PollRollback(r)
    \/ \E r \in SeqReq : Finish(r)
    \/ Tick

PeriodSpec == InitPeriod /\ [][NextPeriod]_vars

\* ------------------------------------------------------------ any tier value
\* submits that carry any tier value, of a user at or one below the free
\* limit, one at a time
InitTier ==
    /\ now = TicksPerMonth - TicksPerDay
    /\ free_used \in {FREE_LIMIT - 1, FREE_LIMIT}
    /\ paid_used \in {0, 1}
    /\ resets_at \in {0, DaysPerMonth}
    /\ gens = [i \in GenIds |-> NoGen]
    /\ nTasks = 0
    /\ apiKeys = Providers
    /\ tz = 0
    /\ taskCap = MaxGen
    /\ mix = "any"
    /\ tiers = AnyTiers
    /\ req = [r \in Req |-> Idle]
    /\ decs = [i \in GenIds |-> "none"]
    /\ since = {}
    /\ hooks = 0
    /\ PageLoaded

TierSpec == InitTier /\ [][NextSubmit]_vars

\* ------------------------------------------------------------- the page
\* the page alone: the server's answers are inputs of the page's steps
InitPage ==
    /\ Init
    /\ free_used = FREE_LIMIT - 1
    /\ paid_used = 0

\* a page on which the user only presses the generate button
NextPollLoop ==
    \/ generateVideo
    \/ \E f \in flights : generateVideoResumes(f)
    \/ \E t \in timers : poll(t)
    \/ \E f \in flights : pollResumes(f)
    \/ Advance

\* timeouts fire, requests come back, time passes
PollLoopSpec ==
    /\ InitPage /\ [][NextPollLoop]_vars
    /\ WF_vars(\E t \in timers : poll(t))
    /\ WF_vars(\E f \in flights : pollResumes(f))
    /\ WF_vars(Advance)

NextPage ==
    \/ NextPollLoop
    \/ resetUI

PageSpec == InitPage /\ [][NextPage]_vars

\* ================================================================== claims

\* C1: a non-test free-tier submit of an existing user whose free_used (after
\* a due reset) is at the limit is answered 402; one whose free_used is one
\* below the limit and for which a provider accepts is answered 200 and
\* leaves the stored free_used at the limit, where the next submit is denied.
C1_QuotaBoundary ==
    \A r \in Req :
      (/\ req[r].op = "submit" /\ req[r].pc = "done"
       /\ req[r].tier = "free" /\ ~req[r].testMode
       /\ req[r].resp.code \notin {400, 404})
      => /\ req[r].uFree = FREE_LIMIT => req[r].resp.code = 402
         /\ (req[r].uFree = FREE_LIMIT - 1 /\ req[r].resp.code # 500)
              => (req[r].resp.code = 200 /\ free_used = FREE_LIMIT)

\* a free-tier generation was accepted at 9 of 10, and the submit after it
\* is denied
C1_Witness ==
    \E r \in Req :
      /\ req[r].op = "submit" /\ req[r].pc = "done"
      /\ req[r].tier = "free" /\ ~req[r].testMode
      /\ req[r].uFree = FREE_LIMIT /\ req[r].resp.code = 402
      /\ resets_at = DaysPerMonth /\ free_used = FREE_LIMIT
      /\ gens[1].exists /\ gens[1].tier = "free" /\ ~gens[1].test_mode

\* C2: the usage write of a successful non-test submit raises the stored
\* counter of its tier by exactly one and leaves the other counter alone.
C2_IncrementByOne ==
    [][\A r \in Req :
         (req[r].op = "submit" /\ req[r].pc = "s_inc" /\ req'[r].pc = "done")
         => IF req[r].tier = "free"
            THEN free_used' = free_used + 1 /\ paid_used' = paid_used
            ELSE paid_used' = paid_used + 1 /\ free_used' = free_used]_vars

\* C3: a poll applies a usage decrement for a generation only when none has
\* been applied for that generation before (one rollback per generation, however
\* often it is polled after its failure).
C3_OneRollbackPerGeneration ==
    [][\A r \in Req :
         (req[r].op = "poll" /\ req[r].pc = "p_rb" /\ req'[r].pc = "done")
         => decs[req[r].gen] = "none"]_vars

\* the polls that found the vendor status completed and no video URL
UrlNotFound(r) ==
    /\ req[r].op = "poll" /\ req[r].pc = "done"
    /\ req[r].pr.error = "URL not found"

FailedAnswer(r) ==
    /\ req[r].resp.code = 200
    /\ req[r].resp.status = "failed"
    /\ req[r].resp.error = "URL not found"
    /\ gens[req[r].gen].status = "failed"
    /\ gens[req[r].gen].error = "URL not found"

\* C4 as stated: completed without an extractable URL is answered failed with
\* the URL-not-found reason, stored as failed, and rolled back exactly once.
C4_AlwaysRolledBack ==
    \A r \in Req : UrlNotFound(r) => (FailedAnswer(r) /\ req[r].rolled = 1)

\* C4 as amended: completed without an extractable URL is answered failed with
\* the URL-not-found reason and stored as failed; the counter of the
\* generation's tier is written once, to one less than the value read, when
\* the generation is not a test-mode generation and the value read is
\* positive; otherwise no counter is written.
C4_RolledBackUnlessTestOrZero ==
    \A r \in Req :
      UrlNotFound(r) =>
        /\ FailedAnswer(r)
        /\ IF req[r].testMode THEN req[r].rolled = 0
           ELSE IF req[r].tier = "free"
           THEN IF req[r].uFree > 0
                THEN req[r].rolled = 1 /\ free_used = req[r].uFree - 1
                ELSE req[r].rolled = 0 /\ free_used = 0
           ELSE IF req[r].uPaid > 0
                THEN req[r].rolled = 1 /\ paid_used = req[r].uPaid - 1
                ELSE req[r].rolled = 0 /\ paid_used = 0

\* a FAL generation reported completed, neither the status nor the result
\* response carried a URL, and the paid counter was rolled back
C4_Witness ==
    \E r \in Req :
      /\ UrlNotFound(r) /\ req[r].rolled = 1
      /\ req[r].prov = "fal" /\ req[r].calls = 2 /\ req[r].net = "none"

\* C5: a poll that reads a generation already completed or failed sends no
\* vendor request, writes no table and answers with the stored status.
C5_TerminalPollIsCached ==
    \A r \in Req :
      (req[r].op = "poll" /\ req[r].gStatus \in Terminal)
      => /\ req[r].pc = "done"
         /\ req[r].calls = 0 /\ req[r].writes = 0
         /\ req[r].resp.status = req[r].gStatus

\* C6: a poll that starts after a video_url has been stored (with status
\* completed) leaves the stored video_url as it is.
C6_VideoUrlKept ==
    [][\A r \in Req :
         (req[r].op = "poll" /\ req[r].afterFix)
         => gens'[req[r].gen].video_url = gens[req[r].gen].video_url]_vars

\* C7: a stored status that is completed or failed is never changed.
C7_TerminalIsFinal ==
    [][\A g \in GenIds :
         gens[g].status \in Terminal => gens'[g].status = gens[g].status]_vars

\* C8: a generation has a video_url exactly when its status is completed.
C8_UrlIffCompleted ==
    \A g \in GenIds :
      gens[g].exists =>
        (gens[g].video_url # Null <=> gens[g].status = "completed")

\* C9: a poll one of whose vendor requests (status or FAL result) failed at
\* the network level writes nothing, rolls nothing back and answers with a
\* non-terminal status.
C9_NetworkFailureIsTransient ==
    \A r \in Req :
      (req[r].op = "poll" /\ req[r].net # "none")
      => /\ req[r].pc = "done"
         /\ req[r].writes = 0 /\ req[r].rolled = 0
         /\ req[r].resp.status \notin Terminal
         /\ gens[req[r].gen].status = req[r].gStatus

\* C10: a poll whose status request failed at the network level answers 200
\* with a non-terminal status and a warning.
C10_NetworkFailureWarns ==
    \A r \in Req :
      (req[r].op = "poll" /\ req[r].pc = "done" /\ req[r].net = "status")
      => /\ req[r].resp.code = 200
         /\ req[r].resp.status \notin Terminal
         /\ req[r].resp.warning # Null

\* the submits that are past createTaskWithFallback
Created(r) ==
    /\ req[r].op = "submit"
    /\ \/ req[r].pc = "s_inc"
       \/ req[r].pc = "done" /\ req[r].resp.code \in {200, 500}

\* the providers of the tier's chain that have a key, in chain order
Keyed(tier) ==
    LET HasKey(p) == p \in apiKeys IN SelectSeq(FALLBACK_CHAINS(tier), HasKey)

\* C11: a provider that answers 401, 403, 422 or 429 is rejected and not
\* asked again; the next configured provider of the chain is asked; when that
\* one accepts, the response and the stored generation name it; the submit
\* answers 500 only when every configured provider of the chain was asked and
\* none accepted.
C11_FallbackOnRejection ==
    \A r \in Req :
      Created(r) =>
        LET at == req[r].attempts
            keyed == Keyed(req[r].tier)
        IN
        /\ \A i \in 1..Len(at) :
             at[i].status \in {401, 403, 422, 429} =>
               /\ at[i].error # "ok"
               /\ \A j \in 1..Len(at) :
                    j # i => at[j].provider # at[i].provider
               /\ i < Len(keyed) =>
                    (Len(at) > i /\ at[i + 1].provider = keyed[i + 1])
               /\ (Len(at) > i /\ at[i + 1].error = "ok") =>
                    /\ req[r].prov = at[i + 1].provider
                    /\ req[r].pc = "done" =>
                         /\ req[r].resp.code = 200
                         /\ req[r].resp.provider = at[i + 1].provider
                    /\ gens[req[r].gen].exists =>
                         gens[req[r].gen].provider = at[i + 1].provider
        /\ (req[r].pc = "done" /\ req[r].resp.code = 500) =>
             /\ Len(at) = Len(keyed)
             /\ \A i \in 1..Len(at) : at[i].error # "ok"

\* the primary answered 422, the secondary accepted and is named by the
\* response and by the stored generation
C11_Witness ==
    \E r \in Req :
      /\ Created(r) /\ req[r].pc = "done" /\ req[r].resp.code = 200
      /\ Len(req[r].attempts) = 2
      /\ req[r].attempts[1].status = 422
      /\ req[r].resp.provider = FALLBACK_CHAINS(req[r].tier)[2]
      /\ gens[req[r].gen].provider = FALLBACK_CHAINS(req[r].tier)[2]

\* C12: requests are sent only to providers that have a key, in chain order;
\* a provider without a key leaves no error behind: when no provider accepts,
\* the submit fails with the error of the last provider that was asked.
C12_SkipUnconfigured ==
    \A r \in Req :
      Created(r) =>
        LET at == req[r].attempts
            keyed == Keyed(req[r].tier)
        IN
        /\ req[r].calls = Len(at) /\ Len(at) <= Len(keyed)
        /\ \A i \in 1..Len(at) :
             at[i].provider \in apiKeys /\ at[i].provider = keyed[i]
        /\ (req[r].pc = "done" /\ req[r].resp.code = 500 /\ Len(at) > 0) =>
             req[r].resp.error =
                ErrorOf(at[Len(at)].provider, at[Len(at)].error)

\* the primary was asked and refused, the secondary has no key: the submit
\* fails with the primary's error
C12_Witness ==
    \E r \in Req :
      /\ Created(r) /\ req[r].pc = "done" /\ req[r].resp.code = 500
      /\ FALLBACK_CHAINS(req[r].tier)[1] \in apiKeys
      /\ FALLBACK_CHAINS(req[r].tier)[2] \notin apiKeys
      /\ Len(req[r].attempts) = 1
      /\ req[r].resp.error =
           ErrorOf(FALLBACK_CHAINS(req[r].tier)[1], req[r].attempts[1].error)

\* what a submit can change in the database
Ledger == <<free_used, paid_used, resets_at, gens, nTasks>>

\* the step in which slot r takes up a submit
Arrives(r) == req[r].op = "idle" /\ req'[r].op = "submit"

\* C13: a non-test free-tier submit of an existing user whose free_used is at
\* or above the limit and whose reset date has not passed is answered 402 at
\* once: no provider is asked, and counters, reset date and generations stay
\* as they are.
C13_DeniedWithoutEffects ==
    [][\A r \in Req :
         (/\ Arrives(r)
          /\ req'[r].prompt = "cat" /\ req'[r].userId = "u1"
          /\ req'[r].tier = "free" /\ ~req'[r].testMode
          /\ free_used >= FREE_LIMIT /\ now < parseDate(resets_at))
         => /\ req'[r].pc = "done" /\ req'[r].resp.code = 402
            /\ req'[r].calls = 0 /\ req'[r].attempts = <<>>
            /\ req'[r].writes = 0
            /\ UNCHANGED Ledger]_vars

\* a submit was denied at the limit before the reset date
C13_Witness ==
    \E r \in Req :
      /\ req[r].op = "submit" /\ req[r].pc = "done" /\ req[r].resp.code = 402
      /\ req[r].tier = "free" /\ ~req[r].testMode
      /\ free_used = FREE_LIMIT /\ now < parseDate(resets_at)
      /\ req[r].calls = 0 /\ req[r].writes = 0

\* C14: a submit without a prompt, with an empty or blank prompt, or without
\* a userId is answered 400 at once: no table is read or written, no
\* provider is asked, no counter changes.
C14_InvalidWithoutEffects ==
    [][\A r \in Req :
         (/\ Arrives(r)
          /\ \/ req'[r].prompt \in {Null, "", "  "}
             \/ req'[r].userId = Null)
         => /\ req'[r].pc = "done" /\ req'[r].resp.code = 400
            /\ req'[r].reads = 0 /\ req'[r].writes = 0
            /\ req'[r].calls = 0 /\ req'[r].attempts = <<>>
            /\ UNCHANGED Ledger]_vars

\* a submit with a blank prompt was answered 400
C14_Witness ==
    \E r \in Req :
      /\ req[r].op = "submit" /\ req[r].pc = "done" /\ req[r].resp.code = 400
      /\ req[r].prompt = "  " /\ req[r].userId = "u1"
      /\ req[r].reads = 0 /\ req[r].writes = 0 /\ req[r].calls = 0

\* C15: the reset of a submit sets both counters to zero and resets_at to
\* the first day of a month, and that day begins after the current instant
\* (so that the next submit of the period finds no reset due).
C15_ResetAdvances ==
    [][\A r \in Req :
         (req[r].op = "submit" /\ req[r].pc = "s_reset"
          /\ req'[r].pc # "s_reset")
         => /\ free_used' = 0 /\ paid_used' = 0
            /\ resets_at' % DaysPerMonth = 0
            /\ parseDate(resets_at') > now]_vars

\* C16: free_used and paid_used are never negative, whatever requests
\* overlap; a rollback is written only from a counter read above zero, so a
\* counter at zero stays at zero.
C16_NeverNegative ==
    /\ free_used >= 0 /\ paid_used >= 0
    /\ \A r \in Req :
         (req[r].pc \in {"p_rb", "w_rb"} \/ req[r].rolled > 0)
         => IF req[r].op = "webhook" \/ req[r].tier = "free"
            THEN req[r].uFree > 0
            ELSE req[r].uPaid > 0

\* a poll saw a non-test free generation fail while free_used was zero and
\* wrote no counter
C16_Witness ==
    \E r \in Req :
      /\ req[r].op = "poll" /\ req[r].pc = "done"
      /\ req[r].pr.status = "failed" /\ req[r].resp.status = "failed"
      /\ req[r].tier = "free" /\ ~req[r].testMode
      /\ req[r].reads = 2 /\ req[r].uFree = 0
      /\ req[r].rolled = 0 /\ free_used = 0

\* a free non-test submit that passed the quota check below the limit and is
\* about to write its increment after another submit's increment has
\* brought the stored counter to the limit
SecondOfRace(r) ==
    /\ req[r].op = "submit" /\ req[r].pc = "s_inc"
    /\ req[r].tier = "free" /\ ~req[r].testMode
    /\ req[r].uFree < FREE_LIMIT /\ free_used = FREE_LIMIT

RollsBack(r) == req[r].pc \in {"p_rb", "w_rb"} /\ req'[r].pc = "done"

\* C18: a rollback for a failed generation that was counted decrements the
\* counter of the generation's tier, free_used for tier free and paid_used
\* for any other tier, and leaves the other counter alone, in poll and in
\* webhook.
C18_RollbackSameCounter ==
    [][\A r \in Req :
         (/\ RollsBack(r)
          /\ gens[req[r].gen].exists /\ ~gens[req[r].gen].test_mode)
         => IF gens[req[r].gen].tier = "free"
            THEN free_used' = free_used - 1 /\ paid_used' = paid_used
            ELSE paid_used' = paid_used - 1 /\ free_used' = free_used]_vars

\* C19: the user status reports max(0, 10 - free_used) of the stored
\* free_used as the remaining free quota.
C19_StatusReportsStored ==
    \A r \in Req :
      (/\ req[r].op = "status" /\ req[r].pc = "done"
       /\ req[r].userId # Null /\ req[r].gen = 0)
      => /\ req[r].resp.code = 200
         /\ req[r].resp.freeRemaining =
              (IF FREE_LIMIT - free_used > 0 THEN FREE_LIMIT - free_used
               ELSE 0)

\* C20: no usage decrement is written for a generation recorded with
\* test_mode true, in poll or in webhook.
C20_TestModeNeverRolledBack ==
    [][\A r \in Req :
         RollsBack(r) =>
           ~(gens[req[r].gen].exists /\ gens[req[r].gen].test_mode)]_vars

\* the submits whose provider task was created and whose insert into
\* generations failed (requests served one at a time)
InsertFailed(r) ==
    /\ req[r].op = "submit" /\ req[r].gen # 0
    /\ ~gens[req[r].gen].exists

Place(tier, p) ==
    IF tier = "paid"
    THEN (CASE p = "luma" -> 1 [] p = "fal" -> 2 [] OTHER -> 0)
    ELSE (CASE p = "wan" -> 1 [] p = "luma" -> 2 [] OTHER -> 0)

\* C22: the providers one submit asks are providers of its tier's chain
\* (free: wan, luma; paid: luma, fal), asked in chain order and each at most
\* once, and a provider that accepts is the last one asked.
C22_ChainOrder ==
    \A r \in Req :
      req[r].op = "submit" =>
        LET at == req[r].attempts IN
        /\ \A i \in 1..Len(at) : Place(req[r].tier, at[i].provider) > 0
        /\ \A i, j \in 1..Len(at) :
             i < j => Place(req[r].tier, at[i].provider)
                        < Place(req[r].tier, at[j].provider)
        /\ \A i \in 1..Len(at) : at[i].error = "ok" => i = Len(at)

\* a paid submit: luma refused, then fal accepted
C22_Witness ==
    \E r \in Req :
      /\ req[r].op = "submit" /\ req[r].tier = "paid"
      /\ Len(req[r].attempts) = 2
      /\ req[r].attempts[1].provider = "luma"
      /\ req[r].attempts[1].error # "ok"
      /\ req[r].attempts[2].provider = "fal"
      /\ req[r].attempts[2].error = "ok"

\* C23: with WEBHOOK_SECRET set, a callback that carries no valid signature
\* (a wrong one or none at all) is answered 401 in the step that takes it up,
\* and no generation and no counter changes.
C23_UnsignedRejected ==
    [][\A r \in Req :
         (/\ req[r].op = "idle" /\ req'[r].op = "webhook"
          /\ req'[r].auth \in {"none", "invalid"})
         => /\ req'[r].pc = "done" /\ req'[r].resp.code = 401
            /\ UNCHANGED <<gens, free_used, paid_used>>]_vars

\* a poll request for generation g comes back in this step
Returned(g) ==
    \E f \in flights : f.kind = "poll" /\ f.gen = g /\ f \notin flights'

C25_StoppedStaysStopped ==
    [][\A g \in halted :
         /\ \A f \in flights' \ flights : ~(f.kind = "poll" /\ f.gen = g)
         /\ \A t \in timers' \ timers : t.gen # g
         /\ shown' # shown => shown'.gen # g]_vars

\* C26: the stored free_used of a user who starts at or below the limit
\* never exceeds the limit, however submits, polls and callbacks interleave.
C26_NeverAboveLimit == free_used <= FREE_LIMIT

\* a submit has brought the counter to the limit while a poll that read it
\* below the limit is about to roll back
C26_Witness ==
    /\ free_used = FREE_LIMIT
    /\ req["r1"].op = "submit" /\ req["r1"].pc = "done"
    /\ req["r1"].resp.code = 200
    /\ req["r2"].op = "poll" /\ req["r2"].pc = "p_rb"
    /\ req["r2"].uFree = FREE_LIMIT - 1

\* C27: a counter is lowered for a generation only when no usage decrement
\* has been applied for that generation before, whichever requests found it
\* failed and however they overlapped.
C27_OneDecrementInTotal ==
    [][\A r \in Req :
         (RollsBack(r) /\ (free_used' < free_used \/ paid_used' < paid_used))
         => decs[req[r].gen] = "none"]_vars

\* the non-test free-tier submits accepted since the last reset whose
\* generation is not failed
LiveFree ==
    {x \in since : x.tier = "free" /\ ~x.testMode
                   /\ gens[x.id].status # "failed"}

\* C28: between requests, free_used is the number of non-test free-tier
\* generations submitted since the last reset that are not failed.
C28_CounterCountsLive ==
    (\A r \in Req : req[r].op = "idle") =>
       free_used = Cardinality(LiveFree)

\* C29: after an accepted non-test submit that carried out the monthly
\* reset, the counter of its tier is one and the other counter is zero.
C29_FreshAfterReset ==
    \A r \in Req :
      (/\ req[r].op = "submit" /\ req[r].pc = "done"
       /\ req[r].resp.code = 200 /\ req[r].reset /\ ~req[r].testMode)
      => IF req[r].tier = "paid"
         THEN paid_used = 1 /\ free_used = 0
         ELSE free_used = 1 /\ paid_used = 0

\* C30: a non-test submit of an existing user whose tier is anything but
\* paid, with free_used at or above the limit and no reset due, is answered
\* 402.
C30_OnlyPaidIsExempt ==
    [][\A r \in Req :
         (/\ Arrives(r)
          /\ req'[r].prompt = "cat" /\ req'[r].userId = "u1"
          /\ req'[r].tier # "paid" /\ ~req'[r].testMode
          /\ free_used >= FREE_LIMIT /\ now < parseDate(resets_at))
         => req'[r].pc = "done" /\ req'[r].resp.code = 402]_vars

====
